---- MODULE Spec2Model ----
(***************************************************************************)
(* KaamConnect, basic_job_marketplace.py: a job marketplace kept in three  *)
(* SQLite tables (job_providers, job_seekers, job_requests) and seven tool *)
(* handlers that read and append to them.                                  *)
(*                                                                         *)
(* A table is the sequence of its rows in insertion order; a row is the    *)
(* tuple SELECT * returns, so Col(row, i) is the Python expression row[i]. *)
(* Text that the code only stores and echoes is a TLA+ string; text that   *)
(* the code matches with LIKE (skills, city, the search terms) is a        *)
(* sequence of one-character strings.                                      *)
(***************************************************************************)
EXTENDS Integers, Sequences, FiniteSets, TLC

VARIABLES job_providers, job_seekers, job_requests, inflight, last

vars == <<job_providers, job_seekers, job_requests, inflight, last>>

tables == <<job_providers, job_seekers, job_requests>>

(***************************************************************************)
(* Text                                                                    *)
(***************************************************************************)
UpperCase == <<"A","B","C","D","E","F","G","H","I","J","K","L","M",
               "N","O","P","Q","R","S","T","U","V","W","X","Y","Z">>

LowerCase == <<"a","b","c","d","e","f","g","h","i","j","k","l","m",
               "n","o","p","q","r","s","t","u","v","w","x","y","z">>

\* SQLite's LIKE folds the ASCII letters and nothing else.
FoldMap ==
    [c \in {UpperCase[i] : i \in 1..26} |->
        LowerCase[CHOOSE i \in 1..26 : UpperCase[i] = c]]

Fold(c) == IF c \in DOMAIN FoldMap THEN FoldMap[c] ELSE c

\* s LIKE pat from position i of s and position j of pat on, as SQLite
\* evaluates it: % is any run of characters, _ is any one character, every
\* other character matches itself up to ASCII case.
RECURSIVE LikeFrom(_, _, _, _)
LikeFrom(s, i, pat, j) ==
    IF j > Len(pat) THEN i > Len(s)
    ELSE IF pat[j] = "%"
         THEN LikeFrom(s, i, pat, j + 1) \/ (i <= Len(s) /\ LikeFrom(s, i + 1, pat, j))
         ELSE /\ i <= Len(s)
              /\ (pat[j] = "_" \/ Fold(pat[j]) = Fold(s[i]))
              /\ LikeFrom(s, i + 1, pat, j + 1)

Like(s, pat) == LikeFrom(s, 1, pat, 1)

\* The f'%{term}%' parameter the handlers bind.
Wrap(term) == <<"%">> \o term \o <<"%">>

\* Python truthiness of a str: of a matched text, and of a stored one.
Truthy(text) == text # <<>>

TruthyStr(text) == text # ""

T_Mumbai == <<"M","u","m","b","a","i">>

T_Hyderabad == <<"H","y","d","e","r","a","b","a","d">>

T_Pune == <<"P","u","n","e">>

T_NotSpecified == <<"N","o","t"," ","s","p","e","c","i","f","i","e","d">>

T_plumber == <<"p","l","u","m","b","e","r">>

T_welder == <<"w","e","l","d","e","r">>

T_underscore == <<"_">>

(***************************************************************************)
(* Rows.  Columns, as SELECT * numbers them:                               *)
(*  job_providers 0 id, 1 user_id, 2 name, 3 phone, 4 skills, 5 location,  *)
(*                6 city, 7 experience, 8 rate, 9 available, 10 created_at *)
(*  job_seekers   0 id, 1 user_id, 2 name, 3 phone, 4 location, 5 city,    *)
(*                6 created_at                                             *)
(*  job_requests  0 id, 1 seeker_id, 2 job_type, 3 description,            *)
(*                4 location, 5 status, 6 created_at                       *)
(***************************************************************************)
Col(row, i) == row[i + 1]

\* datetime.now().isoformat(): stored, never read back by any handler.
Now == "now"

\* INTEGER PRIMARY KEY AUTOINCREMENT on a table no handler deletes from.
NextId(table) == Len(table) + 1

sample_providers ==
    << <<"provider_001", "Rajesh Kumar", "9876543210",
         <<"p","l","u","m","b","e","r"," ","b","a","t","h","r","o","o","m"," ",
           "r","e","p","a","i","r"," ","p","i","p","e"," ","f","i","x","i","n","g">>,
         "Andheri West", T_Mumbai, "5 years", "500 per day", 1>>,
       <<"provider_002", "Suresh Patel", "9876543211",
         <<"e","l","e","c","t","r","i","c","i","a","n"," ","w","i","r","i","n","g"," ",
           "a","c"," ","r","e","p","a","i","r">>,
         "Bandra East", T_Mumbai, "3 years", "400 per day", 1>>,
       <<"provider_003", "Amit Sharma", "9876543212",
         <<"p","a","i","n","t","e","r"," ","w","a","l","l"," ","p","a","i","n","t","i","n","g"," ",
           "i","n","t","e","r","i","o","r">>,
         "Powai", T_Mumbai, "7 years", "600 per day", 1>>,
       <<"provider_004", "Ramesh Yadav", "9876543213",
         <<"p","l","u","m","b","e","r"," ","p","i","p","e","l","i","n","e"," ",
           "b","a","t","h","r","o","o","m"," ","f","i","t","t","i","n","g">>,
         "Hitech City", T_Hyderabad, "6 years", "550 per day", 1>>,
       <<"provider_005", "Krishna Reddy", "9876543214",
         <<"e","l","e","c","t","r","i","c","i","a","n"," ","h","o","m","e"," ",
           "w","i","r","i","n","g"," ","e","l","e","c","t","r","i","c","a","l">>,
         "Gachibowli", T_Hyderabad, "8 years", "700 per day", 1>> >>

\* INSERT INTO <table> (...) VALUES (...): the row gets the next id in front.
InsertRow(table, values) == Append(table, <<NextId(table)>> \o values)

\* SELECT ... WHERE user_id=? (column 1 of job_providers and of job_seekers).
RECURSIVE SelectWhere(_, _, _)
SelectWhere(table, col, value) ==
    IF table = <<>> THEN <<>>
    ELSE IF Col(Head(table), col) = value
         THEN <<Head(table)>> \o SelectWhere(Tail(table), col, value)
         ELSE SelectWhere(Tail(table), col, value)

\* Mutant: the schema without UNIQUE on user_id.
NoUniqueConstraint(table, user_id) == FALSE

\* user_id TEXT UNIQUE: an INSERT of a user_id the table holds raises
\* sqlite3.IntegrityError.
UniqueViolation(table, user_id) == SelectWhere(table, 1, user_id) # <<>>

(***************************************************************************)
(* Inputs of the calls                                                     *)
(***************************************************************************)
\* Bound on the rows of job_requests, which nothing else bounds.
MaxRequests == 2

\* puch_user_id: the id of a seeded provider and an id the seed does not hold.
UserIds == {"provider_001", "user_1"}

\* The arguments of register_job_provider after puch_user_id; the second call
\* leaves daily_rate at its default and gives an empty experience.
ProviderInputs ==
    { [provider_name |-> "Asha Rao", phone |-> "9000000001",
       services |-> <<"P","l","u","m","b","e","r"," ","t","a","p">>,
       work_location |-> "Kothrud", city |-> T_Pune,
       experience |-> "1 year", daily_rate |-> "400 per day"],
      [provider_name |-> "Bina Das", phone |-> "9000000002",
       services |-> T_welder,
       work_location |-> "Dadar", city |-> T_Mumbai,
       experience |-> "", daily_rate |-> "400 per day"] }

\* The arguments of register_job_seeker after puch_user_id.
SeekerInputs ==
    { [seeker_name |-> "Chitra Nair", phone |-> "9000000003",
       location |-> "Baner", city |-> T_Pune] }

\* The arguments of post_job_request after puch_user_id.
JobInputs ==
    { [job_type |-> "plumber", job_description |-> "fix a leaking tap",
       job_location |-> "Baner"] }

\* service_needed / service_filter: empty (the filter's default), a seeded
\* skill, a LIKE wildcard.
Terms == {<<>>, T_plumber, T_underscore}

\* preferred_city / city_filter: "" (the default) and a city no seeded
\* provider works in.
Cities == {<<>>, T_Pune}

\* limit, 10 being the default; each binds as an SQLite INTEGER.
Limits == {-1, 0, 2, 10}

\* The connections SpecInterleaved lets be open between a handler's existence
\* check and its INSERT.
Conns == {"c1", "c2"}

Idle == [op |-> "idle", puch_user_id |-> "", args |-> <<>>]

\* What the last completed call did: the handler, its arguments, which of its
\* return statements ran, and the values that return statement formats (for
\* setup_simple_database, which returns nothing, the number of rows each
\* DROP TABLE discarded).
Result(op, puch_user_id, args, ret, out) ==
    [op |-> op, puch_user_id |-> puch_user_id, args |-> args, ret |-> ret, out |-> out]

(***************************************************************************)
(* setup_simple_database                                                   *)
(***************************************************************************)
\* DROP TABLE IF EXISTS t; CREATE TABLE t (...): whatever t held, it is empty.
RecreateProviders(old) == <<>>

\* Mutant: job_seekers is created only if missing, never dropped.
KeepSeekers(old) == old

RecreateSeekers(old) == <<>>

\* Mutant: job_requests is created only if missing, never dropped.
KeepRequests(old) == old

RecreateRequests(old) == <<>>

RECURSIVE InsertSamples(_, _)
InsertSamples(table, providers) ==
    IF providers = <<>> THEN table
    ELSE InsertSamples(InsertRow(table, Head(providers) \o <<Now>>), Tail(providers))

setup_simple_database ==
    /\ job_providers' = InsertSamples(RecreateProviders(job_providers), sample_providers)
    /\ job_seekers' = RecreateSeekers(job_seekers)
    /\ job_requests' = RecreateRequests(job_requests)
    /\ inflight' = [c \in Conns |-> Idle]
    /\ last' = Result("setup_simple_database", "", <<>>, "started",
                      [dropped |-> <<Len(job_providers), Len(job_seekers),
                                     Len(job_requests)>>])

Init ==
    /\ job_providers = InsertSamples(<<>>, sample_providers)
    /\ job_seekers = <<>>
    /\ job_requests = <<>>
    /\ inflight = [c \in Conns |-> Idle]
    /\ last = Result("setup_simple_database", "", <<>>, "started",
                     [dropped |-> <<0, 0, 0>>])

(***************************************************************************)
(* validate                                                                *)
(***************************************************************************)
validate ==
    /\ last' = Result("validate", "", <<>>, "MY_NUMBER", <<>>)
    /\ UNCHANGED <<tables, inflight>>

(***************************************************************************)
(* register_job_provider                                                   *)
(***************************************************************************)
ProviderValues(puch_user_id, a) ==
    <<puch_user_id, a.provider_name, a.phone, a.services, a.work_location,
      a.city, a.experience, a.daily_rate, 1, Now>>

\* Mutant: the message echoes the name of the call instead of the row's.
EchoSuppliedName(existing, provider_name) == provider_name

\* SELECT name ...; existing[0] in the "already registered" message.
AlreadyProviderName(existing, provider_name) == Col(existing, 2)

\* The INSERT and what follows it, to the end of the handler.
RegisterProviderInsert(puch_user_id, a) ==
    IF UniqueViolation(job_providers, puch_user_id)
    THEN /\ last' = Result("register_job_provider", puch_user_id, a, "failed", <<>>)
         /\ UNCHANGED tables
    ELSE /\ job_providers' = InsertRow(job_providers, ProviderValues(puch_user_id, a))
         /\ last' = Result("register_job_provider", puch_user_id, a, "registered", a)
         /\ UNCHANGED <<job_seekers, job_requests>>

RegisterProviderRefuse(puch_user_id, a, existing) ==
    /\ last' = Result("register_job_provider", puch_user_id, a, "already_registered",
                      [name |-> AlreadyProviderName(existing, a.provider_name)])
    /\ UNCHANGED tables

register_job_provider(puch_user_id, a) ==
    LET existing == SelectWhere(job_providers, 1, puch_user_id) IN
    /\ IF existing # <<>>
       THEN RegisterProviderRefuse(puch_user_id, a, Head(existing))
       ELSE RegisterProviderInsert(puch_user_id, a)
    /\ UNCHANGED inflight

(***************************************************************************)
(* register_job_seeker                                                     *)
(***************************************************************************)
SeekerValues(puch_user_id, a) ==
    <<puch_user_id, a.seeker_name, a.phone, a.location, a.city, Now>>

RegisterSeekerInsert(puch_user_id, a) ==
    IF UniqueViolation(job_seekers, puch_user_id)
    THEN /\ last' = Result("register_job_seeker", puch_user_id, a, "failed", <<>>)
         /\ UNCHANGED tables
    ELSE /\ job_seekers' = InsertRow(job_seekers, SeekerValues(puch_user_id, a))
         /\ last' = Result("register_job_seeker", puch_user_id, a, "registered", a)
         /\ UNCHANGED <<job_providers, job_requests>>

RegisterSeekerRefuse(puch_user_id, a, existing) ==
    /\ last' = Result("register_job_seeker", puch_user_id, a, "already_registered",
                      [name |-> Col(existing, 2)])
    /\ UNCHANGED tables

register_job_seeker(puch_user_id, a) ==
    LET existing == SelectWhere(job_seekers, 1, puch_user_id) IN
    /\ IF existing # <<>>
       THEN RegisterSeekerRefuse(puch_user_id, a, Head(existing))
       ELSE RegisterSeekerInsert(puch_user_id, a)
    /\ UNCHANGED inflight

(***************************************************************************)
(* Queries over job_providers                                              *)
(***************************************************************************)
RECURSIVE Reverse(_)
Reverse(rows) ==
    IF rows = <<>> THEN <<>> ELSE Reverse(Tail(rows)) \o <<Head(rows)>>

\* ORDER BY id DESC: ids rise with the position in the table.
OrderByIdDesc(rows) == Reverse(rows)

\* LIMIT n: SQLite reads a negative n as no limit at all.
SqlLimit(rows, n) ==
    IF n < 0 \/ n >= Len(rows) THEN rows ELSE SubSeq(rows, 1, n)

\* WHERE available=1
RECURSIVE Available(_)
Available(rows) ==
    IF rows = <<>> THEN <<>>
    ELSE IF Col(Head(rows), 9) = 1
         THEN <<Head(rows)>> \o Available(Tail(rows))
         ELSE Available(Tail(rows))

\* text LIKE '%term%'.  The texts a column can hold and the terms a call can
\* pass are the finitely many of the inputs above, so the outcomes of Like
\* on them are tabulated once.
LikeTexts ==
    {sample_providers[i][4] : i \in 1..Len(sample_providers)}
        \cup {sample_providers[i][6] : i \in 1..Len(sample_providers)}
        \cup {a.services : a \in ProviderInputs}
        \cup {a.city : a \in ProviderInputs}

LikeTable ==
    {p : p \in {q \in LikeTexts \X (Terms \cup Cities) : Like(q[1], Wrap(q[2]))}}

Matches(text, term) == <<text, term>> \in LikeTable

\* AND <col> LIKE '%term%'
RECURSIVE WhereLike(_, _, _)
WhereLike(rows, col, term) ==
    IF rows = <<>> THEN <<>>
    ELSE IF Matches(Col(Head(rows), col), term)
         THEN <<Head(rows)>> \o WhereLike(Tail(rows), col, term)
         ELSE WhereLike(Tail(rows), col, term)

\* The row cap of find_job_providers' two SELECTs.
FindLimit == 5

\* The SELECT of find_job_providers, with or without the city condition.
SearchProviders(providers, service_needed, preferred_city) ==
    IF Truthy(preferred_city)
    THEN SqlLimit(OrderByIdDesc(Available(
             WhereLike(WhereLike(providers, 4, service_needed), 6, preferred_city))),
             FindLimit)
    ELSE SqlLimit(OrderByIdDesc(Available(WhereLike(providers, 4, service_needed))),
             FindLimit)

\* The SELECT browse_job_providers builds.
BrowseQuery(providers, service_filter, city_filter, limit) ==
    LET q0 == Available(providers)
        q1 == IF Truthy(service_filter) THEN WhereLike(q0, 4, service_filter) ELSE q0
        q2 == IF Truthy(city_filter) THEN WhereLike(q1, 6, city_filter) ELSE q1
    IN  SqlLimit(OrderByIdDesc(q2), limit)

\* Mutant: the total is counted under the filters of the listing.
FilteredTotal(providers, service_filter, city_filter) ==
    Len(BrowseQuery(providers, service_filter, city_filter, -1))

\* SELECT COUNT(*) FROM job_providers WHERE available=1
BrowseTotal(providers, service_filter, city_filter) == Len(Available(providers))

(***************************************************************************)
(* find_job_providers                                                      *)
(***************************************************************************)
\* The row find_job_providers inserts for a caller who is no seeker yet.
AutoSeekerValues(puch_user_id, preferred_city) ==
    <<puch_user_id, "User", "Not provided", "Not specified",
      IF Truthy(preferred_city) THEN preferred_city ELSE T_NotSpecified, Now>>

FindResult(puch_user_id, a) ==
    LET providers == SearchProviders(job_providers, a.service_needed, a.preferred_city) IN
    Result("find_job_providers", puch_user_id, a,
           IF providers = <<>> THEN "none_found" ELSE "found",
           [providers |-> providers])

\* Mutant: the caller is registered only when the search finds someone.
InsertOnlyIfFound(puch_user_id, a) ==
    IF SearchProviders(job_providers, a.service_needed, a.preferred_city) = <<>>
    THEN /\ last' = FindResult(puch_user_id, a)
         /\ UNCHANGED tables
    ELSE /\ job_seekers' = InsertRow(job_seekers,
                                     AutoSeekerValues(puch_user_id, a.preferred_city))
         /\ last' = FindResult(puch_user_id, a)
         /\ UNCHANGED <<job_providers, job_requests>>

\* The auto-registering INSERT, its commit, and the search after it.
FindInsertAndSearch(puch_user_id, a) ==
    IF UniqueViolation(job_seekers, puch_user_id)
    THEN /\ last' = Result("find_job_providers", puch_user_id, a, "failed", <<>>)
         /\ UNCHANGED tables
    ELSE /\ job_seekers' = InsertRow(job_seekers,
                                     AutoSeekerValues(puch_user_id, a.preferred_city))
         /\ last' = FindResult(puch_user_id, a)
         /\ UNCHANGED <<job_providers, job_requests>>

FindSearchOnly(puch_user_id, a) ==
    /\ last' = FindResult(puch_user_id, a)
    /\ UNCHANGED tables

find_job_providers(puch_user_id, a) ==
    /\ IF SelectWhere(job_seekers, 1, puch_user_id) = <<>>
       THEN FindInsertAndSearch(puch_user_id, a)
       ELSE FindSearchOnly(puch_user_id, a)
    /\ UNCHANGED inflight

(***************************************************************************)
(* post_job_request                                                        *)
(***************************************************************************)
\* Mutant: the check reads job_providers instead of job_seekers.
LookupInProviders(providers, seekers, puch_user_id) ==
    SelectWhere(providers, 1, puch_user_id)

\* SELECT name FROM job_seekers WHERE user_id=?
PostSeekerLookup(providers, seekers, puch_user_id) == SelectWhere(seekers, 1, puch_user_id)

\* Mutant: the request is stored with another status.
RequestValuesPending(puch_user_id, a) ==
    <<puch_user_id, a.job_type, a.job_description, a.job_location, "pending", Now>>

RequestValues(puch_user_id, a) ==
    <<puch_user_id, a.job_type, a.job_description, a.job_location, "open", Now>>

post_job_request(puch_user_id, a) ==
    LET seeker == PostSeekerLookup(job_providers, job_seekers, puch_user_id) IN
    /\ IF seeker = <<>>
       THEN /\ last' = Result("post_job_request", puch_user_id, a, "register_first", <<>>)
            /\ UNCHANGED tables
       ELSE /\ Len(job_requests) < MaxRequests
            /\ job_requests' = InsertRow(job_requests, RequestValues(puch_user_id, a))
            /\ last' = Result("post_job_request", puch_user_id, a, "posted", a)
            /\ UNCHANGED <<job_providers, job_seekers>>
    /\ UNCHANGED inflight

(***************************************************************************)
(* view_job_profile                                                        *)
(***************************************************************************)
\* Mutant: the seeker record is looked at first.
SeekerFirst(provider, seeker) ==
    IF seeker # <<>> THEN "seeker"
    ELSE IF provider # <<>> THEN "provider"
    ELSE "no_profile"

\* Which of the three return statements runs: provider and seeker are the
\* fetchone() results, <<>> standing for None.
ProfileView(provider, seeker) ==
    IF provider # <<>> THEN "provider"
    ELSE IF seeker # <<>> THEN "seeker"
    ELSE "no_profile"

\* The fields the provider view formats, by the positions the code reads.
ProviderProfile(provider) ==
    [name |-> Col(provider, 2), phone |-> Col(provider, 1),
     services |-> Col(provider, 2),
     location |-> <<Col(provider, 3), Col(provider, 5)>>,
     experience |-> Col(provider, 6), rate |-> Col(provider, 4),
     status |-> IF TruthyStr(Col(provider, 7)) THEN "Available" ELSE "Not Available"]

\* The fields the seeker view formats.
SeekerProfile(seeker, requests) ==
    [name |-> Col(seeker, 2), phone |-> Col(seeker, 1),
     location |-> <<Col(seeker, 2), Col(seeker, 3)>>,
     job_requests |-> requests]

\* Mutant: viewing a profile registers the caller as find_job_providers does.
ViewAutoRegisters(puch_user_id) ==
    /\ IF SelectWhere(job_seekers, 1, puch_user_id) = <<>>
       THEN /\ job_seekers' = InsertRow(job_seekers, AutoSeekerValues(puch_user_id, <<>>))
            /\ UNCHANGED <<job_providers, job_requests>>
       ELSE UNCHANGED tables
    /\ last' = Result("view_job_profile", puch_user_id, <<>>,
                      ProfileView(SelectWhere(job_providers, 1, puch_user_id), <<>>), <<>>)
    /\ UNCHANGED inflight

view_job_profile(puch_user_id) ==
    LET provider == SelectWhere(job_providers, 1, puch_user_id)
        seeker == SelectWhere(job_seekers, 1, puch_user_id)
        requests == IF seeker # <<>>
                    THEN Len(SelectWhere(job_requests, 1, puch_user_id))
                    ELSE 0
        view == ProfileView(provider, seeker)
    IN  /\ last' = Result("view_job_profile", puch_user_id, <<>>, view,
                          CASE view = "provider" -> ProviderProfile(Head(provider))
                            [] view = "seeker" -> SeekerProfile(Head(seeker), requests)
                            [] OTHER -> <<>>)
        /\ UNCHANGED <<tables, inflight>>

(***************************************************************************)
(* browse_job_providers                                                    *)
(***************************************************************************)
browse_job_providers(service_filter, city_filter, limit) ==
    LET providers == BrowseQuery(job_providers, service_filter, city_filter, limit)
        total == BrowseTotal(job_providers, service_filter, city_filter)
    IN  /\ last' = Result("browse_job_providers", "",
                          [service_filter |-> service_filter,
                           city_filter |-> city_filter, limit |-> limit],
                          IF providers = <<>> THEN "none_found" ELSE "listing",
                          [providers |-> providers, total |-> total])
        /\ UNCHANGED <<tables, inflight>>

(***************************************************************************)
(* job_marketplace_stats                                                   *)
(***************************************************************************)
\* SELECT COUNT(*) FROM job_requests WHERE status="open"
OpenRequests(requests) == Len(SelectWhere(requests, 5, "open"))

job_marketplace_stats ==
    /\ last' = Result("job_marketplace_stats", "", <<>>, "report",
                      [total_providers |-> Len(job_providers),
                       available_providers |-> Len(Available(job_providers)),
                       total_seekers |-> Len(job_seekers),
                       total_requests |-> Len(job_requests),
                       open_requests |-> OpenRequests(job_requests)])
    /\ UNCHANGED <<tables, inflight>>

(***************************************************************************)
(* The server: one handler runs at a time, start to finish (the handlers   *)
(* are coroutines that never await), and the process may start afresh.     *)
(***************************************************************************)
FindInputs ==
    {[service_needed |-> t, preferred_city |-> c] : t \in Terms, c \in Cities}

Next ==
    \/ setup_simple_database
    \/ validate
    \/ \E u \in UserIds, a \in ProviderInputs : register_job_provider(u, a)
    \/ \E u \in UserIds, a \in SeekerInputs : register_job_seeker(u, a)
    \/ \E u \in UserIds, a \in FindInputs : find_job_providers(u, a)
    \/ \E u \in UserIds, a \in JobInputs : post_job_request(u, a)
    \/ \E u \in UserIds : view_job_profile(u)
    \/ \E t \in Terms, c \in Cities, n \in Limits : browse_job_providers(t, c, n)
    \/ job_marketplace_stats

Spec == Init /\ [][Next]_vars

(***************************************************************************)
(* The same three writers with their statements interleaved: a call's      *)
(* existence check (its SELECT) and the rest of the handler (its INSERT,   *)
(* commit and return) are separate steps, each on the call's own           *)
(* connection, so that two calls can both pass the check before either     *)
(* inserts.  A process start ends the calls in flight.                     *)
(***************************************************************************)
\* The find_job_providers calls of the interleaved runs.
RaceFindInputs == {a \in FindInputs : a.service_needed = T_plumber}

Pending(op, puch_user_id, a) == [op |-> op, puch_user_id |-> puch_user_id, args |-> a]

begin_register_job_provider(c, puch_user_id, a) ==
    LET existing == SelectWhere(job_providers, 1, puch_user_id) IN
    /\ inflight[c] = Idle
    /\ IF existing # <<>>
       THEN RegisterProviderRefuse(puch_user_id, a, Head(existing))
            /\ UNCHANGED inflight
       ELSE /\ inflight' = [inflight EXCEPT
                               ![c] = Pending("register_job_provider", puch_user_id, a)]
            /\ UNCHANGED <<tables, last>>

finish_register_job_provider(c) ==
    /\ inflight[c].op = "register_job_provider"
    /\ RegisterProviderInsert(inflight[c].puch_user_id, inflight[c].args)
    /\ inflight' = [inflight EXCEPT ![c] = Idle]

begin_register_job_seeker(c, puch_user_id, a) ==
    LET existing == SelectWhere(job_seekers, 1, puch_user_id) IN
    /\ inflight[c] = Idle
    /\ IF existing # <<>>
       THEN RegisterSeekerRefuse(puch_user_id, a, Head(existing))
            /\ UNCHANGED inflight
       ELSE /\ inflight' = [inflight EXCEPT
                               ![c] = Pending("register_job_seeker", puch_user_id, a)]
            /\ UNCHANGED <<tables, last>>

finish_register_job_seeker(c) ==
    /\ inflight[c].op = "register_job_seeker"
    /\ RegisterSeekerInsert(inflight[c].puch_user_id, inflight[c].args)
    /\ inflight' = [inflight EXCEPT ![c] = Idle]

begin_find_job_providers(c, puch_user_id, a) ==
    /\ inflight[c] = Idle
    /\ IF SelectWhere(job_seekers, 1, puch_user_id) # <<>>
       THEN FindSearchOnly(puch_user_id, a)
            /\ UNCHANGED inflight
       ELSE /\ inflight' = [inflight EXCEPT
                               ![c] = Pending("find_job_providers", puch_user_id, a)]
            /\ UNCHANGED <<tables, last>>

finish_find_job_providers(c) ==
    /\ inflight[c].op = "find_job_providers"
    /\ FindInsertAndSearch(inflight[c].puch_user_id, inflight[c].args)
    /\ inflight' = [inflight EXCEPT ![c] = Idle]

NextInterleaved ==
    \/ setup_simple_database
    \/ \E c \in Conns, u \in UserIds, a \in ProviderInputs :
           begin_register_job_provider(c, u, a)
    \/ \E c \in Conns : finish_register_job_provider(c)
    \/ \E c \in Conns, u \in UserIds, a \in SeekerInputs :
           begin_register_job_seeker(c, u, a)
    \/ \E c \in Conns : finish_register_job_seeker(c)
    \/ \E c \in Conns, u \in UserIds, a \in RaceFindInputs :
           begin_find_job_providers(c, u, a)
    \/ \E c \in Conns : finish_find_job_providers(c)

SpecInterleaved == Init /\ [][NextInterleaved]_vars

(***************************************************************************)
(* Properties                                                              *)
(***************************************************************************)
\* The rows of a table whose column col holds value, by position.
RowsWith(table, col, value) == {i \in 1..Len(table) : Col(table[i], col) = value}

\* term occurs in text as a contiguous run of characters, compared exactly.
Contains(text, term) ==
    \E i \in 0..(Len(text) - Len(term)) : SubSeq(text, i + 1, i + Len(term)) = term

\* table grew by exactly one row, which it got at its end.
AppendedOne(old, new) ==
    /\ Len(new) = Len(old) + 1
    /\ SubSeq(new, 1, Len(old)) = old

\* rows lists, newest first, the rows of job_providers at the positions in
\* wanted -- all of them when cap < 0, otherwise the cap newest of them.
NewestOf(rows, wanted, cap) ==
    /\ \A k \in 1..Len(rows) : \E i \in wanted : rows[k] = job_providers[i]
    /\ \A k \in 1..(Len(rows) - 1) : Col(rows[k], 0) > Col(rows[k + 1], 0)
    /\ Len(rows) = IF cap < 0 \/ Cardinality(wanted) < cap
                   THEN Cardinality(wanted) ELSE cap
    /\ \A i \in wanted :
           \/ \E k \in 1..Len(rows) : rows[k] = job_providers[i]
           \/ Len(rows) > 0 /\ Col(job_providers[i], 0) < Col(rows[Len(rows)], 0)
           \/ cap = 0

\* C1: in every state of every interleaving of register_job_provider,
\* register_job_seeker and find_job_providers, job_providers holds at most one
\* row per user id and so does job_seekers.
C1_OneRowPerUserId ==
    /\ \A i, j \in 1..Len(job_providers) :
           Col(job_providers[i], 1) = Col(job_providers[j], 1) => i = j
    /\ \A i, j \in 1..Len(job_seekers) :
           Col(job_seekers[i], 1) = Col(job_seekers[j], 1) => i = j

\* Two calls for user_1 passed the existence check before either inserted;
\* the second INSERT was turned down and the call returned its failure text.
C1_Witness ==
    /\ last.ret = "failed"
    /\ last.puch_user_id = "user_1"
    /\ \/ last.op = "register_job_provider" /\ RowsWith(job_providers, 1, "user_1") # {}
       \/ last.op \in {"register_job_seeker", "find_job_providers"}
            /\ RowsWith(job_seekers, 1, "user_1") # {}

\* C2: register_job_provider for a user id that has a Provider row returns
\* the "already registered" message with the name of that row and leaves
\* job_providers as it was, with one row for the id.
C2_AlreadyRegistered ==
    [][\A u \in UserIds :
          (/\ last'.op = "register_job_provider"
           /\ last'.puch_user_id = u
           /\ RowsWith(job_providers, 1, u) # {})
          => /\ last'.ret = "already_registered"
             /\ \E i \in RowsWith(job_providers, 1, u) :
                    last'.out.name = Col(job_providers[i], 2)
             /\ job_providers' = job_providers
             /\ Cardinality(RowsWith(job_providers', 1, u)) = 1]_vars

\* A registered (not seeded) provider registered again under another name
\* and was told the name of the row.
C2_Witness ==
    /\ last.op = "register_job_provider"
    /\ last.ret = "already_registered"
    /\ last.puch_user_id = "user_1"
    /\ last.args.provider_name # last.out.name
    /\ Cardinality(RowsWith(job_providers, 1, "user_1")) = 1

\* C3: post_job_request for a user id that has no Seeker row returns the
\* register-first refusal and changes none of the three tables.
C3_PostRefused ==
    [][\A u \in UserIds :
          (/\ last'.op = "post_job_request"
           /\ last'.puch_user_id = u
           /\ RowsWith(job_seekers, 1, u) = {})
          => /\ last'.ret = "register_first"
             /\ tables' = tables]_vars

\* A user who is no seeker was refused while another user is one.
C3_Witness ==
    /\ last.op = "post_job_request"
    /\ last.ret = "register_first"
    /\ RowsWith(job_seekers, 1, last.puch_user_id) = {}
    /\ job_seekers # <<>>

\* C4: post_job_request for a user id that has a Seeker row appends exactly
\* one JobRequest row, owned by that id and with status "open", and the
\* number of open requests, which is what job_marketplace_stats reports,
\* goes up by exactly 1.
C4_PostCreatesOneOpen ==
    [][/\ \A u \in UserIds :
             (/\ last'.op = "post_job_request"
              /\ last'.puch_user_id = u
              /\ RowsWith(job_seekers, 1, u) # {})
             => /\ last'.ret = "posted"
                /\ AppendedOne(job_requests, job_requests')
                /\ Col(job_requests'[Len(job_requests')], 1) = u
                /\ Col(job_requests'[Len(job_requests')], 5) = "open"
                /\ Cardinality(RowsWith(job_requests', 5, "open"))
                     = Cardinality(RowsWith(job_requests, 5, "open")) + 1
                /\ UNCHANGED <<job_providers, job_seekers>>
       /\ last'.op = "job_marketplace_stats"
             => last'.out.open_requests
                  = Cardinality(RowsWith(job_requests, 5, "open"))]_vars

\* A seeker posted a second request.
C4_Witness ==
    /\ last.op = "post_job_request"
    /\ last.ret = "posted"
    /\ Len(job_requests) >= 2
    /\ Cardinality(RowsWith(job_requests, 5, "open")) = Len(job_requests)

\* C5: in every state, the seeker id of every JobRequest row is the user id
\* of a row of job_seekers.
C5_RequestsHaveSeekers ==
    \A i \in 1..Len(job_requests) :
        RowsWith(job_seekers, 1, Col(job_requests[i], 1)) # {}

\* Requests of two different seekers are stored.
C5_Witness ==
    /\ Len(job_requests) >= 2
    /\ Col(job_requests[1], 1) # Col(job_requests[2], 1)

\* C6: find_job_providers for a user id that has no Seeker row appends exactly
\* one Seeker row for that id, with name "User", phone "Not provided" and
\* location "Not specified", whether the search finds providers or none; for
\* a user id that has a Seeker row it leaves job_seekers as it was.
C6_AutoRegistration ==
    [][\A u \in UserIds :
          (last'.op = "find_job_providers" /\ last'.puch_user_id = u)
          => /\ last'.ret \in {"found", "none_found"}
             /\ IF RowsWith(job_seekers, 1, u) = {}
                THEN /\ AppendedOne(job_seekers, job_seekers')
                     /\ Col(job_seekers'[Len(job_seekers')], 1) = u
                     /\ Col(job_seekers'[Len(job_seekers')], 2) = "User"
                     /\ Col(job_seekers'[Len(job_seekers')], 3) = "Not provided"
                     /\ Col(job_seekers'[Len(job_seekers')], 4) = "Not specified"
                     /\ Cardinality(RowsWith(job_seekers', 1, u)) = 1
                ELSE job_seekers' = job_seekers]_vars

\* After another user registered as seeker, a user never seen before searched,
\* found nobody and has the placeholder row.
C6_Witness ==
    /\ last.op = "find_job_providers"
    /\ last.ret = "none_found"
    /\ Len(job_seekers) = 2
    /\ Col(job_seekers[1], 2) = "Chitra Nair"
    /\ Col(job_seekers[2], 1) = last.puch_user_id
    /\ Col(job_seekers[2], 2) = "User"

\* The providers a find_job_providers call is said to select: available,
\* skills containing the term, city containing the preferred city if given.
C7_Wanted(a) ==
    {i \in 1..Len(job_providers) :
        /\ Col(job_providers[i], 9) = 1
        /\ Contains(Col(job_providers[i], 4), a.service_needed)
        /\ a.preferred_city # <<>> => Contains(Col(job_providers[i], 6), a.preferred_city)}

\* C7: the rows find_job_providers selects are exactly the available
\* Providers whose skills contain the service term as a substring (and whose
\* city contains the preferred city, when one is given), newest first, cut to
\* the first 5; a Provider whose skills do not contain the term is never
\* selected.
C7_SelectsBySubstring ==
    (last.op = "find_job_providers" /\ last.ret # "failed")
    => /\ NewestOf(last.out.providers, C7_Wanted(last.args), FindLimit)
       /\ \A k \in 1..Len(last.out.providers) :
              Contains(Col(last.out.providers[k], 4), last.args.service_needed)

\* The available providers that pass the filters of a browse_job_providers
\* call, an empty filter passing all.
C8_Matching(a) ==
    {i \in 1..Len(job_providers) :
        /\ Col(job_providers[i], 9) = 1
        /\ a.service_filter # <<>> => Matches(Col(job_providers[i], 4), a.service_filter)
        /\ a.city_filter # <<>> => Matches(Col(job_providers[i], 6), a.city_filter)}

C9_RestartYieldsSeed ==
    last.op = "setup_simple_database"
    => /\ Len(job_providers) = 5
       /\ \A i \in 1..Len(job_providers) :
              /\ Col(job_providers[i], 0) = i
              /\ SubSeq(job_providers[i], 2, 10) = sample_providers[i]
       /\ <<"provider_001", "provider_002", "provider_003", "provider_004",
            "provider_005">> = [i \in 1..5 |-> Col(job_providers[i], 1)]
       /\ job_seekers = <<>>
       /\ job_requests = <<>>

\* The process started over tables that held a registered provider, seekers
\* and requests.
C9_Witness ==
    /\ last.op = "setup_simple_database"
    /\ last.out.dropped[1] > 5
    /\ last.out.dropped[2] > 0
    /\ last.out.dropped[3] > 0
    /\ Len(job_providers) = 5

\* C10: view_job_profile returns the Provider view exactly when the user id
\* has a Provider row, with or without a Seeker row; the Seeker view, with the
\* number of JobRequest rows owned by the id, exactly when it has a Seeker row
\* and no Provider row; the no-profile guidance exactly when it has neither.
C10_ProfileResolution ==
    last.op = "view_job_profile"
    => LET u == last.puch_user_id
           isProvider == RowsWith(job_providers, 1, u) # {}
           isSeeker == RowsWith(job_seekers, 1, u) # {}
       IN  /\ last.ret = "provider" <=> isProvider
           /\ last.ret = "seeker" <=> (isSeeker /\ ~isProvider)
           /\ last.ret = "no_profile" <=> (~isSeeker /\ ~isProvider)
           /\ last.ret = "seeker"
                => last.out.job_requests = Cardinality(RowsWith(job_requests, 1, u))

\* A user registered as both, with a request posted, got the Provider view.
C10_Witness ==
    /\ last.op = "view_job_profile"
    /\ last.ret = "provider"
    /\ RowsWith(job_seekers, 1, last.puch_user_id) # {}
    /\ RowsWith(job_requests, 1, last.puch_user_id) # {}


\* C11: in the Provider view of view_job_profile the status label reads
\* "Available" exactly when the available flag of the user's Provider row is
\* true, for every row registration can create, one registered with an empty
\* experience text included.
C11_StatusFromAvailableFlag ==
    (last.op = "view_job_profile" /\ last.ret = "provider")
    => \A i \in RowsWith(job_providers, 1, last.puch_user_id) :
           last.out.status = "Available" <=> Col(job_providers[i], 9) = 1


\* table holds the rows of old, unchanged and in place, and perhaps more.
Extends(old, table) ==
    /\ Len(table) >= Len(old)
    /\ SubSeq(table, 1, Len(old)) = old

\* C12: between two process starts the tables are append-only -- a step of
\* any handler keeps every row of the three tables as it was and where it
\* was, every Provider's available flag stays true and every JobRequest's
\* status stays "open" -- and view_job_profile, browse_job_providers and
\* job_marketplace_stats leave all three tables unchanged.
C12_AppendOnly ==
    [][last'.op # "setup_simple_database"
          => /\ Extends(job_providers, job_providers')
             /\ Extends(job_seekers, job_seekers')
             /\ Extends(job_requests, job_requests')
             /\ \A i \in 1..Len(job_providers') : Col(job_providers'[i], 9) = 1
             /\ \A i \in 1..Len(job_requests') : Col(job_requests'[i], 5) = "open"
             /\ last'.op \in {"view_job_profile", "browse_job_providers",
                               "job_marketplace_stats"}
                  => tables' = tables]_vars

\* A profile was viewed while the tables hold a registered provider, a seeker
\* and a request besides the seed.
C12_Witness ==
    /\ last.op = "view_job_profile"
    /\ Len(job_providers) = 6
    /\ job_seekers # <<>>
    /\ job_requests # <<>>

====
